---- MODULE Spec2Model ----
(***************************************************************************)
(* Model of dashboard/state_aggregator.py: StateAPIManager, the state API  *)
(* of the dashboard.  Strings are sequences of one-character strings, a    *)
(* Python dict is a sequence of <<key, value>> pairs in insertion order,   *)
(* a record (the dict message_to_dict returns) is a function from field    *)
(* names to values.                                                        *)
(***************************************************************************)
EXTENDS Integers, Sequences, FiniteSets, TLC

VARIABLES
    \* --- single-source (GCS) list operations and _filter
    gcs_table,      \* the GCS table: None (GCS does not reply) or Some(rows)
    gpc,            \* "idle" | "filtered" | "listed" | "raised"
    gop,            \* which operation ran last
    clauses,        \* the clauses the caller joined into option.filter
    glimit,         \* option.limit of the last call
    matched,        \* the list _filter returned
    gresult,        \* the StateApiResult returned
    \* --- fan-out list operations
    registered,     \* the client's registered peers, in registration order
    pc,             \* "idle" | "waiting" | "done" | "raised"
    kind,           \* "tasks" | "objects" | "runtime_envs"
    option,         \* ListApiOptions of the call in flight
    raylet_ids,     \* the peer ids read at the start of the call
    req,            \* per peer: "none" | "pending" | "replied" | "falsy" | "raised"
    issued,         \* per peer: sub-requests issued by the call in flight
    result,         \* the StateApiResult returned
    \* --- summary
    spc,            \* "idle" | "gathering" | "done" | "raised"
    actor_reply,    \* reply of get_all_actor_info: None or Some(list) of actors
    worker_reply,   \* reply of get_all_worker_info: None or Some(list) of workers
    task_replies,   \* the outcome of get_task_info at each registered raylet
    results,        \* what the gather of the three list operations returned
    node_to_summary \* what summary() returned

gvars == <<gcs_table, gpc, gop, clauses, glimit, matched, gresult>>
fvars == <<registered, pc, kind, option, raylet_ids, req, issued, result>>
svars == <<spc, actor_reply, worker_reply, task_replies, results, node_to_summary>>
vars == <<gvars, fvars, svars>>

\* A value that may be Python's None (a reply, the `data` and `warnings` of
\* a StateApiResult): None, or Some(v) for the object v.
None == [none |-> TRUE, v |-> << >>]
Some(x) == [none |-> FALSE, v |-> x]

Min(a, b) == IF a <= b THEN a ELSE b

(***************************************************************************)
(* Strings                                                                 *)
(***************************************************************************)
\* Code points of the characters identifiers are made of (str comparison).
CharOrd(c) ==
    CASE c = "0" -> 48 [] c = "1" -> 49 [] c = "2" -> 50 [] c = "3" -> 51
      [] c = "4" -> 52 [] c = "5" -> 53 [] c = "6" -> 54 [] c = "7" -> 55
      [] c = "8" -> 56 [] c = "9" -> 57 [] OTHER -> 97

\* Python's s1 < s2 on str: lexicographic by code point.
RECURSIVE StrLess(_, _)
StrLess(s, t) ==
    IF t = << >> THEN FALSE
    ELSE IF s = << >> THEN TRUE
    ELSE IF CharOrd(Head(s)) # CharOrd(Head(t))
         THEN CharOrd(Head(s)) < CharOrd(Head(t))
    ELSE StrLess(Tail(s), Tail(t))

\* The first index of character sep in s, 0 when there is none.
RECURSIVE IndexOf(_, _, _)
IndexOf(s, sep, i) ==
    IF i > Len(s) THEN 0
    ELSE IF s[i] = sep THEN i
    ELSE IndexOf(s, sep, i + 1)

\* str.split(sep): "" splits into [""], "a," into ["a", ""].
RECURSIVE Split(_, _)
Split(s, sep) ==
    LET i == IndexOf(s, sep, 1)
    IN IF i = 0 THEN <<s>>
       ELSE <<SubSeq(s, 1, i - 1)>> \o Split(SubSeq(s, i + 1, Len(s)), sep)

(***************************************************************************)
(* Dicts and lists                                                         *)
(***************************************************************************)
DictKeys(dict) == {dict[i][1] : i \in 1..Len(dict)}

\* dict[k] = v: a new key is appended, an old key keeps its place.
DictSet(dict, k, v) ==
    IF k \in DictKeys(dict)
    THEN [i \in 1..Len(dict) |-> IF dict[i][1] = k THEN <<k, v>> ELSE dict[i]]
    ELSE Append(dict, <<k, v>>)

DictGet(dict, k) == dict[CHOOSE i \in 1..Len(dict) : dict[i][1] = k][2]

\* islice(result, limit)
islice(list, limit) == SubSeq(list, 1, Min(limit, Len(list)))

\* a < b on two sort keys: ints (ref_cnt) numerically, strs by code point.
KeyLess(key, a, b) == IF key = <<"r", "e", "f", "_", "c", "n", "t">> THEN a < b ELSE StrLess(a, b)

\* list.sort(key=lambda entry: entry[key]): stable and ascending.  x goes
\* after every element whose key is not greater than its own.
RECURSIVE InsertSorted(_, _, _)
InsertSorted(sorted, x, key) ==
    IF sorted = << >> THEN <<x>>
    ELSE IF KeyLess(key, x[key], sorted[Len(sorted)][key])
         THEN Append(InsertSorted(SubSeq(sorted, 1, Len(sorted) - 1), x, key),
                     sorted[Len(sorted)])
    ELSE Append(sorted, x)

RECURSIVE SortFrom(_, _, _, _)
SortFrom(list, i, acc, key) ==
    IF i > Len(list) THEN acc
    ELSE SortFrom(list, i + 1, InsertSorted(acc, list[i], key), key)

sort(list, key) == SortFrom(list, 1, << >>, key)

\* {d[key]: d for d in list}
RECURSIVE DictFrom(_, _, _, _)
DictFrom(list, i, acc, key) ==
    IF i > Len(list) THEN acc
    ELSE DictFrom(list, i + 1, DictSet(acc, list[i][key], list[i]), key)

(***************************************************************************)
(* Field names, values and messages                                        *)
(***************************************************************************)
ACTOR_ID == <<"a", "c", "t", "o", "r", "_", "i", "d">>
PLACEMENT_GROUP_ID == <<"p", "g", "_", "i", "d">>
NODE_ID == <<"n", "o", "d", "e", "_", "i", "d">>
WORKER_ID == <<"w", "o", "r", "k", "e", "r", "_", "i", "d">>
TASK_ID == <<"t", "a", "s", "k", "_", "i", "d">>
OBJECT_ID == <<"o", "b", "j", "e", "c", "t", "_", "i", "d">>
REF_CNT == <<"r", "e", "f", "_", "c", "n", "t">>
STATE_FIELD == <<"s", "t", "a", "t", "e">>
CLASS_NAME == <<"c", "l", "a", "s", "s", "_", "n", "a", "m", "e">>
ALIVE == <<"A", "L", "I", "V", "E">>
DEAD == <<"D", "E", "A", "D">>
Foo == <<"F", "o", "o">>
Bar == <<"B", "a", "r">>

\* The warning of a single-source operation whose GCS call returned nothing.
GCS_QUERY_FAILURE_WARNING == "Failed to query data from GCS."

\* StateApiResult: both fields default to None.
StateApiResult(data, warnings) == [data |-> data, warnings |-> warnings]

(***************************************************************************)
(* StateAPIManager._filter                                                 *)
(***************************************************************************)
\* The loop over kvs: a clause that splits on "=" into two parts sets
\* kv_filters[part 0] = part 1.
RECURSIVE ParseFilters(_, _, _)
ParseFilters(kvs, i, kv_filters) ==
    IF i > Len(kvs) THEN kv_filters
    ELSE LET split == Split(kvs[i], "=")
         IN ParseFilters(kvs, i + 1,
                IF Len(split) = 2
                THEN DictSet(kv_filters, split[1], split[2])
                ELSE kv_filters)

\* d.get(column) is falsy: the field is absent or its value is empty.
Falsy(d, column) == column \notin DOMAIN d \/ d[column] = << >>

\* The loop over kv_filters.items() for one record d, from item i on.
RECURSIVE Match(_, _, _, _)
Match(d, kv_filters, i, match) ==
    IF i > Len(kv_filters) THEN match
    ELSE IF Falsy(d, kv_filters[i][1]) THEN FALSE
    ELSE Match(d, kv_filters, i + 1,
               IF d[kv_filters[i][1]] # kv_filters[i][2] THEN FALSE ELSE match)

RECURSIVE MatchedFrom(_, _, _, _)
MatchedFrom(data, kv_filters, i, matched_result) ==
    IF i > Len(data) THEN matched_result
    ELSE MatchedFrom(data, kv_filters, i + 1,
             IF Match(data[i], kv_filters, 1, TRUE)
             THEN Append(matched_result, data[i])
             ELSE matched_result)

_filter(filters, data) ==
    MatchedFrom(data, ParseFilters(Split(filters, ","), 1, << >>), 1, << >>)

(***************************************************************************)
(* Single-source list operations                                           *)
(***************************************************************************)
\* The tail every keyed list operation shares: filter, sort by the
\* identifier, truncate, key by the identifier.
KeyedPage(list, opt, id) ==
    LET filtered == _filter(opt.filter, list)
        sorted == sort(filtered, id)
    IN DictFrom(islice(sorted, opt.limit), 1, << >>, id)

\* `if not reply: return StateApiResult(warnings=[...])`, else the page.
GcsList(reply, opt, id) ==
    IF reply.none
    THEN StateApiResult(None, Some(<<GCS_QUERY_FAILURE_WARNING>>))
    ELSE StateApiResult(Some(KeyedPage(reply.v, opt, id)), None)

list_actors(reply, opt) == GcsList(reply, opt, ACTOR_ID)
list_placement_groups(reply, opt) == GcsList(reply, opt, PLACEMENT_GROUP_ID)
list_nodes(reply, opt) == GcsList(reply, opt, NODE_ID)
list_workers(reply, opt) == GcsList(reply, opt, WORKER_ID)

(***************************************************************************)
(* Inputs of the single-source operations                                  *)
(***************************************************************************)
MaxRecords == 2
MaxClauses == 2
MaxLimit == 2

Digits == <<"0", "1", "2", "3", "4", "5", "6", "7", "8", "9">>
\* The identifier of the i-th entity, as message_to_dict decodes it.
IdOf(i) == <<Digits[i + 1]>>

\* What a row of the GCS table holds beside its identifier.
AttrChoices ==
    { (STATE_FIELD :> ALIVE) @@ (CLASS_NAME :> Foo),
      (STATE_FIELD :> DEAD) @@ (CLASS_NAME :> Foo),
      (STATE_FIELD :> ALIVE) @@ (CLASS_NAME :> Bar),
      (STATE_FIELD :> ALIVE) }

Record(idField, id, attrs) == (idField :> id) @@ attrs

Injections(n) == {f \in [1..n -> 1..n] : \A i, j \in 1..n : f[i] = f[j] => i = j}

\* The GCS keys its tables by identifier: the rows of a table have distinct
\* identifiers, in any order.
Tables ==
    UNION { { [i \in 1..n |-> [id |-> IdOf(ids[i]), attrs |-> attrs[i]]] :
                ids \in Injections(n), attrs \in [1..n -> AttrChoices] } :
            n \in 0..MaxRecords }

\* The reply of get_all_<entity>_info, decoded: None, or the rows under the
\* entity's identifier field.
GcsReply(table, idField) ==
    IF table.none THEN None
    ELSE Some([i \in 1..Len(table.v) |->
                 Record(idField, table.v[i].id, table.v[i].attrs)])

FilterFields == {STATE_FIELD, CLASS_NAME}
FilterValues == {ALIVE, DEAD, Foo}
WellFormedClauses == {f \o <<"=">> \o v : f \in FilterFields, v \in FilterValues}
MalformedClauses ==
    { << >>,
      <<"n", "o", "v", "a", "l", "u", "e">>,
      <<"a", "=", "b", "=", "c">>,
      STATE_FIELD \o <<"=">>,
      <<"=">> \o ALIVE }
ClauseSet ==
    { STATE_FIELD \o <<"=">> \o ALIVE, STATE_FIELD \o <<"=">> \o DEAD,
      CLASS_NAME \o <<"=">> \o Foo } \cup MalformedClauses
ClauseLists == UNION {[1..n -> ClauseSet] : n \in 0..MaxClauses}

\* The filter string a caller makes of its clauses: ",".join(clauses).
RECURSIVE Join(_)
Join(cs) ==
    IF cs = << >> THEN << >>
    ELSE IF Len(cs) = 1 THEN cs[1]
    ELSE cs[1] \o <<",">> \o Join(Tail(cs))

ListApiOptions(limit, filter) == [limit |-> limit, timeout |-> 30, filter |-> filter]

GcsOps == {"actors", "placement_groups", "nodes", "workers"}
IdField(op) ==
    CASE op = "actors" -> ACTOR_ID
      [] op = "placement_groups" -> PLACEMENT_GROUP_ID
      [] op = "nodes" -> NODE_ID
      [] op = "workers" -> WORKER_ID

(***************************************************************************)
(* Actions of the single-source operations                                 *)
(***************************************************************************)
GIdle ==
    /\ gpc = "idle" /\ gop = "none" /\ clauses = << >> /\ glimit = 0
    /\ matched = << >> /\ gresult = StateApiResult(None, None)

FIdle ==
    /\ registered = << >> /\ pc = "idle" /\ kind = "none"
    /\ option = ListApiOptions(0, << >>) /\ raylet_ids = << >>
    /\ req = << >> /\ issued = << >> /\ result = StateApiResult(None, None)

SIdle ==
    /\ spc = "idle" /\ actor_reply = None /\ worker_reply = None
    /\ task_replies = << >> /\ results = << >> /\ node_to_summary = << >>

InitGcs ==
    /\ gcs_table \in {None} \cup {Some(t) : t \in Tables}
    /\ GIdle /\ FIdle /\ SIdle

\* A call of _filter on the decoded actor table.
Filter(cs) ==
    /\ gpc = "idle" /\ ~gcs_table.none
    /\ gpc' = "filtered"
    /\ clauses' = cs
    /\ matched' = _filter(Join(cs), GcsReply(gcs_table, ACTOR_ID).v)
    /\ UNCHANGED <<gcs_table, gop, glimit, gresult, fvars, svars>>

Listed(op, cs, limit, res) ==
    /\ gpc = "idle"
    /\ gpc' = "listed" /\ gop' = op
    /\ clauses' = cs /\ glimit' = limit
    /\ gresult' = res
    /\ UNCHANGED <<gcs_table, matched, fvars, svars>>

ListActors(cs, limit) ==
    Listed("actors", cs, limit,
           list_actors(GcsReply(gcs_table, ACTOR_ID), ListApiOptions(limit, Join(cs))))

ListPlacementGroups(cs, limit) ==
    Listed("placement_groups", cs, limit,
           list_placement_groups(GcsReply(gcs_table, PLACEMENT_GROUP_ID),
                                 ListApiOptions(limit, Join(cs))))

ListNodes(cs, limit) ==
    Listed("nodes", cs, limit,
           list_nodes(GcsReply(gcs_table, NODE_ID), ListApiOptions(limit, Join(cs))))

ListWorkers(cs, limit) ==
    Listed("workers", cs, limit,
           list_workers(GcsReply(gcs_table, WORKER_ID), ListApiOptions(limit, Join(cs))))

\* The caller drops the result; nothing is kept between calls.
GReturn ==
    /\ gpc # "idle"
    /\ gpc' = "idle" /\ gop' = "none" /\ clauses' = << >> /\ glimit' = 0
    /\ matched' = << >> /\ gresult' = StateApiResult(None, None)
    /\ UNCHANGED <<gcs_table, fvars, svars>>

NextGcs ==
    \/ \E cs \in ClauseLists : Filter(cs)
    \/ \E cs \in ClauseLists, limit \in 0..MaxLimit : ListActors(cs, limit)
    \/ \E cs \in ClauseLists, limit \in 0..MaxLimit : ListPlacementGroups(cs, limit)
    \/ \E cs \in ClauseLists, limit \in 0..MaxLimit : ListNodes(cs, limit)
    \/ \E cs \in ClauseLists, limit \in 0..MaxLimit : ListWorkers(cs, limit)
    \/ GReturn

SpecGcs == InitGcs /\ [][NextGcs]_vars

(***************************************************************************)
(* Claims about _filter and the single-source operations                   *)
(***************************************************************************)
AllWellFormed(cs) == \A i \in 1..Len(cs) : cs[i] \in WellFormedClauses

\* Record d has the field of clause c present with the clause's value.
Satisfies(d, c) ==
    \E f \in FilterFields, v \in FilterValues :
        c = f \o <<"=">> \o v /\ f \in DOMAIN d /\ d[f] = v

Values(dict) == {dict[i][2] : i \in 1..Len(dict)}

\* What the operation that ran returns for the same table and limit under
\* the empty filter.
Unfiltered ==
    GcsList(GcsReply(gcs_table, IdField(gop)), ListApiOptions(glimit, << >>),
            IdField(gop))

\* C2: under a filter of well-formed clauses, a list operation returns a
\* subset of what it returns under the empty filter with the same limit,
\* and _filter keeps a record iff it satisfies every clause.
C2_FilterIsConjunction ==
    /\ (gpc = "listed" /\ ~gcs_table.none /\ AllWellFormed(clauses))
          => Values(gresult.data.v) \subseteq Values(Unfiltered.data.v)
    /\ (gpc = "filtered" /\ AllWellFormed(clauses))
          => matched = SelectSeq(GcsReply(gcs_table, ACTOR_ID).v,
                                 LAMBDA d : \A i \in 1..Len(clauses) :
                                                Satisfies(d, clauses[i]))

\* C4: when the GCS call returns nothing, the result has data {} and the
\* single warning GCS_QUERY_FAILURE_WARNING.
C4_NoReplyGivesEmptyMapping ==
    (gpc = "listed" /\ gcs_table.none)
        => /\ gresult.data = Some(<< >>)
           /\ gresult.warnings = Some(<<GCS_QUERY_FAILURE_WARNING>>)

\* The clauses of cs that are well formed, in order.
Applied(cs) == SelectSeq(cs, LAMBDA c : c \in WellFormedClauses)

\* C7: a clause that is not two non-empty tokens around one "=" has no
\* effect: _filter returns what it returns with those clauses omitted, and
\* the empty filter keeps every record.
C7_MalformedClausesDropped ==
    gpc = "filtered"
        => /\ matched = _filter(Join(Applied(clauses)),
                                GcsReply(gcs_table, ACTOR_ID).v)
           /\ (Join(clauses) = << >>
                 => matched = GcsReply(gcs_table, ACTOR_ID).v)

(***************************************************************************)
(* Fan-out list operations: list_tasks, list_objects, list_runtime_envs    *)
(***************************************************************************)
NumPeers == 3
Peers == 1..NumPeers

NAME == <<"n", "a", "m", "e">>
CALL_SITE == <<"c", "a", "l", "l", "_", "s", "i", "t", "e">>
ERROR == <<"e", "r", "r", "o", "r">>
OBJECT_REF == <<"o", "b", "j", "e", "c", "t", "_", "r", "e", "f">>
TYPE == <<"t", "y", "p", "e">>
SCHEDULING_STATE == <<"s", "c", "h", "e", "d", "u", "l", "i", "n", "g", "_", "s", "t", "a", "t", "e">>
NORMAL_TASK == <<"N", "O", "R", "M", "A", "L", "_", "T", "A", "S", "K">>
ACTOR_CREATION_TASK == <<"A", "C", "T", "O", "R", "_", "C", "R", "E", "A", "T", "I", "O", "N", "_", "T", "A", "S", "K">>
WAITING_FOR_DEPENDENCIES == <<"W", "A", "I", "T", "I", "N", "G", "_", "F", "O", "R", "_", "D", "E", "P", "E", "N", "D", "E", "N", "C", "I", "E", "S">>
SCHEDULED == <<"S", "C", "H", "E", "D", "U", "L", "E", "D">>
FINISHED == <<"F", "I", "N", "I", "S", "H", "E", "D">>

RAYLET_QUERY_FAILURE_WARNING(total, network_failures) ==
    "Failed to query data from some raylets. You might have data loss. Queryed "
        \o ToString(total) \o " raylets and " \o ToString(network_failures)
        \o " raylets failed to reply."

AGENT_QUERY_FAILURE_WARNING(total, network_failures) ==
    "Failed to query data from some Ray agents. You might have data loss. Queryed "
        \o ToString(total) \o " Ray agents and " \o ToString(network_failures)
        \o " Ray agents failed to reply."

\* What the peers hold.  Peers 1 and 2 both report the entity "1" (the
\* reference count 1) with different contents, peer 2 reports its entries
\* out of order, peer 3 holds nothing, the peers from 4 on hold two
\* entities of their own.
Task(id, name, type, scheduling_state) ==
    (TASK_ID :> id) @@ (NAME :> name) @@ (TYPE :> type)
        @@ (SCHEDULING_STATE :> scheduling_state)
TaskInfoEntries(p) ==
    CASE p = 1 -> <<Task(IdOf(1), Foo, NORMAL_TASK, FINISHED)>>
      [] p = 2 -> <<Task(IdOf(2), Bar, ACTOR_CREATION_TASK, SCHEDULED),
                    Task(IdOf(1), Bar, NORMAL_TASK, SCHEDULED)>>
      [] p = 3 -> << >>
      [] OTHER -> <<Task(IdOf(p), Foo, NORMAL_TASK, WAITING_FOR_DEPENDENCIES),
                    Task(IdOf(p - 1), Foo, NORMAL_TASK, FINISHED)>>

\* A core worker's statistics: the object references it holds.
ObjectRef(id, site) == (OBJECT_REF :> id) @@ (CALL_SITE :> site)
CoreWorkersStats(p) ==
    CASE p = 1 -> << <<ObjectRef(IdOf(1), Foo)>> >>
      [] p = 2 -> << <<ObjectRef(IdOf(2), Bar)>>, <<ObjectRef(IdOf(1), Bar)>> >>
      [] p = 3 -> << >>
      [] OTHER -> << <<ObjectRef(IdOf(p), Foo), ObjectRef(IdOf(p - 1), Foo)>> >>

\* The runtime_env field, which RuntimeEnv.deserialize fills, is left out.
RuntimeEnvState(ref_cnt, error) == (REF_CNT :> ref_cnt) @@ (ERROR :> error)
RuntimeEnvStates(p) ==
    CASE p = 1 -> <<RuntimeEnvState(1, Foo)>>
      [] p = 2 -> <<RuntimeEnvState(2, Bar), RuntimeEnvState(1, Bar)>>
      [] p = 3 -> << >>
      [] OTHER -> <<RuntimeEnvState(p, Foo), RuntimeEnvState(p - 1, Foo)>>

\* The entries of the reply peer p gives to the sub-request of operation k.
Entries(k, p) ==
    CASE k = "tasks" -> TaskInfoEntries(p)
      [] k = "objects" -> CoreWorkersStats(p)
      [] k = "runtime_envs" -> RuntimeEnvStates(p)

\* The filters the callers of the fan-out operations pass.
AttrField(k) ==
    CASE k = "tasks" -> NAME
      [] k = "objects" -> CALL_SITE
      [] k = "runtime_envs" -> ERROR
FanFilters(k) == {<< >>, AttrField(k) \o <<"=">> \o Foo}

\* The loop over replies: a falsy reply counts as a network failure, the
\* entries of any other reply are appended to the result.
RECURSIVE CollectUncounted(_, _, _)
CollectUncounted(replies, i, acc) ==
    IF i > Len(replies) THEN acc
    ELSE IF replies[i].none THEN CollectUncounted(replies, i + 1, acc)
    ELSE CollectUncounted(replies, i + 1, [acc EXCEPT !.result = @ \o replies[i].v])

RECURSIVE Collect(_, _, _)
Collect(replies, i, acc) ==
    IF i > Len(replies) THEN acc
    ELSE IF replies[i].none
         THEN Collect(replies, i + 1,
                      [acc EXCEPT !.network_failures = @ + 1])
    ELSE Collect(replies, i + 1, [acc EXCEPT !.result = @ \o replies[i].v])

Collected(replies) == Collect(replies, 1, [network_failures |-> 0, result |-> << >>])

list_tasks(ids, replies, opt) ==
    LET got == Collected(replies)
        warnings ==
            IF got.network_failures # 0
            THEN Some(<<RAYLET_QUERY_FAILURE_WARNING(Len(ids), got.network_failures)>>)
            ELSE None
    IN StateApiResult(Some(KeyedPage(got.result, opt, TASK_ID)), warnings)

\* memory_utils.construct_memory_table: one entry per object reference of
\* each worker's statistics.
RECURSIVE construct_memory_table(_)
construct_memory_table(worker_stats) ==
    IF worker_stats = << >> THEN << >>
    ELSE Head(worker_stats) \o construct_memory_table(Tail(worker_stats))

\* data["object_id"] = data["object_ref"]; del data["object_ref"]
ObjectState(entry) ==
    [f \in (DOMAIN entry \ {OBJECT_REF}) \cup {OBJECT_ID} |->
        IF f = OBJECT_ID THEN entry[OBJECT_REF] ELSE entry[f]]

list_objects(ids, replies, opt) ==
    LET got == Collected(replies)
        table == construct_memory_table(got.result)
        objects == [i \in 1..Len(table) |-> ObjectState(table[i])]
        warnings ==
            IF got.network_failures # 0
            THEN Some(<<RAYLET_QUERY_FAILURE_WARNING(Len(ids), got.network_failures)>>)
            ELSE None
    IN StateApiResult(Some(KeyedPage(objects, opt, OBJECT_ID)), warnings)

list_runtime_envs(ids, replies, opt) ==
    LET got == Collected(replies)
        warnings ==
            IF got.network_failures # 0
            THEN Some(<<AGENT_QUERY_FAILURE_WARNING(Len(ids), got.network_failures)>>)
            ELSE None
        filtered == _filter(opt.filter, got.result)
        sorted == sort(filtered, REF_CNT)
    IN StateApiResult(Some(islice(sorted, opt.limit)), warnings)

FanOut(k, ids, replies, opt) ==
    CASE k = "tasks" -> list_tasks(ids, replies, opt)
      [] k = "objects" -> list_objects(ids, replies, opt)
      [] k = "runtime_envs" -> list_runtime_envs(ids, replies, opt)

Range(seq) == {seq[i] : i \in 1..Len(seq)}

\* What asyncio.gather hands back: the sub-requests' replies in the order
\* of ids, a falsy reply as None.
Replies(k, ids, outcome) ==
    [i \in 1..Len(ids) |->
        IF outcome[ids[i]] = "replied" THEN Some(Entries(k, ids[i])) ELSE None]

\* The await on asyncio.gather returns: every sub-request has replied.
GatheredFirstCompleted ==
    \/ raylet_ids = << >>
    \/ \E p \in Range(raylet_ids) : req[p] \in {"replied", "falsy"}

Gathered ==
    \A p \in Range(raylet_ids) : req[p] \in {"replied", "falsy"}

InitFan ==
    /\ gcs_table = None /\ GIdle /\ SIdle
    /\ registered = << >> /\ pc = "idle" /\ kind = "none"
    /\ option = ListApiOptions(0, << >>) /\ raylet_ids = << >>
    /\ req = [p \in Peers |-> "none"] /\ issued = [p \in Peers |-> 0]
    /\ result = StateApiResult(None, None)

\* A raylet or an agent registers with the client, also while a call is in
\* flight (the call has read the ids already and does not ask it).
Register(p) ==
    /\ pc \in {"idle", "waiting"}
    /\ p \notin Range(registered)
    /\ registered' = Append(registered, p)
    /\ UNCHANGED <<pc, kind, option, raylet_ids, req, issued, result, gvars, svars>>

\* A peer leaves between calls.  One that leaves during a call is a peer
\* whose sub-request fails: Settle covers it.
Unregister(p) ==
    /\ pc = "idle"
    /\ p \in Range(registered)
    /\ registered' = SelectSeq(registered, LAMBDA q : q # p)
    /\ UNCHANGED <<pc, kind, option, raylet_ids, req, issued, result, gvars, svars>>

\* The call reads the peer ids and creates one sub-request for each.
StartCall(k, opt) ==
    /\ pc = "idle"
    /\ pc' = "waiting"
    /\ kind' = k /\ option' = opt
    /\ raylet_ids' = registered
    /\ req' = [p \in Peers |-> IF p \in Range(registered) THEN "pending" ELSE "none"]
    /\ issued' = [p \in Peers |->
                    Cardinality({i \in 1..Len(registered) : registered[i] = p})]
    /\ UNCHANGED <<registered, result, gvars, svars>>

ListTasks(opt) == StartCall("tasks", opt)
ListObjects(opt) == StartCall("objects", opt)
ListRuntimeEnvs(opt) == StartCall("runtime_envs", opt)

\* A sub-request settles, whatever became of the others and of the call:
\* gather does not cancel the sub-requests that are left when one raises.
Settle(p, outcome) ==
    /\ pc \in {"waiting", "raised"}
    /\ req[p] = "pending"
    /\ req' = [req EXCEPT ![p] = outcome]
    /\ UNCHANGED <<registered, pc, kind, option, raylet_ids, issued, result, gvars, svars>>

\* gather (return_exceptions left False) raises the exception of a
\* sub-request into the call, which has no handler.
Propagate ==
    /\ pc = "waiting"
    /\ \E p \in Range(raylet_ids) : req[p] = "raised"
    /\ pc' = "raised"
    /\ UNCHANGED <<registered, kind, option, raylet_ids, req, issued, result, gvars, svars>>

\* gather returns and the call builds its result.
Finish ==
    /\ pc = "waiting"
    /\ Gathered
    /\ pc' = "done"
    /\ result' = FanOut(kind, raylet_ids, Replies(kind, raylet_ids, req), option)
    /\ UNCHANGED <<registered, kind, option, raylet_ids, req, issued, gvars, svars>>

\* The caller has its result or its exception, and no sub-request is left.
Return ==
    /\ pc \in {"done", "raised"}
    /\ \A p \in Peers : req[p] # "pending"
    /\ pc' = "idle" /\ kind' = "none"
    /\ option' = ListApiOptions(0, << >>) /\ raylet_ids' = << >>
    /\ req' = [p \in Peers |-> "none"] /\ issued' = [p \in Peers |-> 0]
    /\ result' = StateApiResult(None, None)
    /\ UNCHANGED <<registered, gvars, svars>>

Next ==
    \/ \E p \in Peers : Register(p)
    \/ \E p \in Peers : Unregister(p)
    \/ \E limit \in 0..MaxLimit, f \in FanFilters("tasks") :
         ListTasks(ListApiOptions(limit, f))
    \/ \E limit \in 0..MaxLimit, f \in FanFilters("objects") :
         ListObjects(ListApiOptions(limit, f))
    \/ \E limit \in 0..MaxLimit, f \in FanFilters("runtime_envs") :
         ListRuntimeEnvs(ListApiOptions(limit, f))
    \/ \E p \in Peers, outcome \in {"replied", "falsy", "raised"} : Settle(p, outcome)
    \/ Propagate
    \/ Finish
    \/ Return

Spec == InitFan /\ [][Next]_vars

(***************************************************************************)
(* Claims about the fan-out operations                                     *)
(***************************************************************************)
\* T and F of the call in flight: the peers asked, those that replied falsy.
Total == Len(raylet_ids)
Failed == Cardinality({p \in Range(raylet_ids) : req[p] = "falsy"})

\* The warning of operation k for t peers of which f failed.
FailureWarning(k, t, f) ==
    IF k = "runtime_envs" THEN AGENT_QUERY_FAILURE_WARNING(t, f)
    ELSE RAYLET_QUERY_FAILURE_WARNING(t, f)

\* The records peer p holds for operation k, normalized.
PeerRecords(k, p) ==
    CASE k = "tasks" -> Range(TaskInfoEntries(p))
      [] k = "objects" ->
           {ObjectState(e) : e \in UNION {Range(st) : st \in Range(CoreWorkersStats(p))}}
      [] k = "runtime_envs" -> Range(RuntimeEnvStates(p))

\* The records the call returned, in the order of the returned data.
Returned ==
    IF kind = "runtime_envs" THEN result.data.v
    ELSE [i \in 1..Len(result.data.v) |-> result.data.v[i][2]]

\* C1: with F >= 1 falsy replies out of T the result carries exactly one
\* warning, which encodes (T, F); with F = 0 it carries none; the data holds
\* only records of peers that replied, and is empty when F = T.
C1_FailureWarning ==
    pc = "done"
        => /\ Failed >= 1
                => /\ result.warnings = Some(<<FailureWarning(kind, Total, Failed)>>)
                   /\ \A t, f \in 0..NumPeers :
                        FailureWarning(kind, t, f) = result.warnings.v[1]
                            => t = Total /\ f = Failed
           /\ Failed = 0 => result.warnings = None
           /\ Range(Returned) \subseteq
                UNION {PeerRecords(kind, p) :
                         p \in {q \in Range(raylet_ids) : req[q] = "replied"}}
           /\ Failed = Total => result.data = Some(<< >>)

\* Three peers asked, one replied falsy, and records of the others returned.
C1_Witness ==
    /\ pc = "done" /\ Total = 3 /\ Failed = 1
    /\ result.data.v # << >>

\* The sort key of the operation in flight.
SortKey == CASE kind = "tasks" -> TASK_ID
             [] kind = "objects" -> OBJECT_ID
             [] kind = "runtime_envs" -> REF_CNT
             [] OTHER -> TASK_ID

\* The normalized records of the peers that replied, in the order of ids.
RECURSIVE Fetched(_)
Fetched(i) ==
    IF i > Len(raylet_ids) THEN << >>
    ELSE LET p == raylet_ids[i]
             mine ==
                 IF req[p] # "replied" THEN << >>
                 ELSE IF kind = "objects"
                      THEN LET t == construct_memory_table(CoreWorkersStats(p))
                           IN [j \in 1..Len(t) |-> ObjectState(t[j])]
                 ELSE Entries(kind, p)
         IN mine \o Fetched(i + 1)

\* The record passes option.filter (the empty filter, or one clause).
Passes(d) ==
    \/ option.filter = << >>
    \/ /\ AttrField(kind) \in DOMAIN d
       /\ option.filter = AttrField(kind) \o <<"=">> \o d[AttrField(kind)]

\* C3: the data has exactly min(L, n) entries, n the number of records that
\* pass the filter, and they are the first min(L, n) of those records in
\* ascending order of the sort key.
C3_LimitTruncates ==
    pc = "done"
        => LET passing == SelectSeq(Fetched(1), Passes)
               n == Len(passing)
               got == Returned
           IN /\ Len(got) = Min(option.limit, n)
              /\ Range(got) \subseteq Range(passing)
              /\ \A i, j \in 1..Len(got) :
                    i < j => ~KeyLess(SortKey, got[j][SortKey], got[i][SortKey])
              /\ \A d \in Range(passing) \ Range(got) : \A i \in 1..Len(got) :
                    ~KeyLess(SortKey, d[SortKey], got[i][SortKey])

\* C5: the exception of a sub-request that raises is never raised to the
\* caller of the list operation.
C5_RaiseNeverPropagates == pc # "raised"

\* The orders in which the peers of the call can be enumerated.
Enumerations ==
    {o \in [1..Len(raylet_ids) -> Range(raylet_ids)] :
        \A i, j \in 1..Len(raylet_ids) : o[i] = o[j] => i = j}

\* C6: the data returned is the same in whatever order the peers are
\* enumerated.
C6_OrderIndependent ==
    pc = "done"
        => \A o \in Enumerations :
             FanOut(kind, o, Replies(kind, o, req), option).data = result.data

\* C10: the call issues exactly one sub-request to each peer it read at its
\* start and none to any other, builds its result only when all of them
\* have settled, and a pending sub-request can always settle, whatever
\* became of the others.
C10_OneRequestEachJoinAll ==
    /\ pc # "idle"
          => \A p \in Peers :
               /\ issued[p] = (IF p \in Range(raylet_ids) THEN 1 ELSE 0)
               /\ req[p] # "none" <=> p \in Range(raylet_ids)
    /\ pc = "done"
          => \A p \in Range(raylet_ids) : req[p] \in {"replied", "falsy"}
    /\ \A p \in Peers :
          req[p] = "pending"
              => \A outcome \in {"replied", "falsy", "raised"} :
                     ENABLED Settle(p, outcome)

\* A call over two peers or more, one of which failed, returned while the
\* registered peers were no longer those it had read.
C10_Witness ==
    /\ pc = "done" /\ Total >= 2
    /\ \E p, q \in Range(raylet_ids) : req[p] = "falsy" /\ req[q] = "replied"
    /\ Range(registered) # Range(raylet_ids)

(***************************************************************************)
(* StateAPIManager.summary                                                 *)
(***************************************************************************)
MaxActors == 3
SummaryLimit == 1000

ADDRESS == <<"a", "d", "d", "r", "e", "s", "s">>
WORKER_ADDRESS == <<"w", "o", "r", "k", "e", "r", "_", "a", "d", "d", "r", "e", "s", "s">>
RAYLET_ID == <<"r", "a", "y", "l", "e", "t", "_", "i", "d">>
IS_ALIVE == <<"i", "s", "_", "a", "l", "i", "v", "e">>
DEPENDENCIES_UNREADY == <<"D", "E", "P", "E", "N", "D", "E", "N", "C", "I", "E", "S", "_", "U", "N", "R", "E", "A", "D", "Y">>
PENDING_CREATION == <<"P", "E", "N", "D", "I", "N", "G", "_", "C", "R", "E", "A", "T", "I", "O", "N">>
RESTARTING == <<"R", "E", "S", "T", "A", "R", "T", "I", "N", "G">>
ACTORS == <<"a", "c", "t", "o", "r", "s">>
TASKS == <<"t", "a", "s", "k", "s">>
NUM_WORKERS == <<"n", "u", "m", "_", "w", "o", "r", "k", "e", "r", "s">>
CNT == <<"c", "n", "t">>
DEP_UNREADY_CNT == <<"d", "e", "p", "_", "u", "n", "r", "e", "a", "d", "y", "_", "c", "n", "t">>
PENDING_CNT == <<"p", "e", "n", "d", "i", "n", "g", "_", "c", "n", "t">>
ALIVE_CNT == <<"a", "l", "i", "v", "e", "_", "c", "n", "t">>
RESTARTING_CNT == <<"r", "e", "s", "t", "a", "r", "t", "i", "n", "g", "_", "c", "n", "t">>
DEAD_CNT == <<"d", "e", "a", "d", "_", "c", "n", "t">>
WAIT_FOR_DEP_CNT == <<"w", "a", "i", "t", "_", "f", "o", "r", "_", "d", "e", "p", "_", "c", "n", "t">>
SCHEDULED_CNT == <<"s", "c", "h", "e", "d", "u", "l", "e", "d", "_", "c", "n", "t">>
FINISHED_CNT == <<"f", "i", "n", "i", "s", "h", "e", "d", "_", "c", "n", "t">>

\* The node ids raylets go by in the actor and worker tables.
NodeIds == {<<"n", "1">>, <<"n", "2">>}
ActorStates == {DEPENDENCIES_UNREADY, PENDING_CREATION, ALIVE, RESTARTING, DEAD}
ClassNames == {Foo, Bar}

\* d[k] of a defaultdict: the default when k is not a key.
GetOr(dict, k, default) == IF k \in DictKeys(dict) THEN DictGet(dict, k) ELSE default

\* d[k] += 1 of a defaultdict(int)
Inc(dict, k) == DictSet(dict, k, GetOr(dict, k, 0) + 1)

\* d[k1][k2] = v, d[k1] being there (a defaultdict makes it on the read).
Set2(dict, k1, k2, v) == DictSet(dict, k1, DictSet(GetOr(dict, k1, << >>), k2, v))

\* The counter the chain of elifs increments for an actor state, none for
\* a state it does not name.
ActorCounter(state) ==
    CASE state = DEPENDENCIES_UNREADY -> DEP_UNREADY_CNT
      [] state = PENDING_CREATION -> PENDING_CNT
      [] state = ALIVE -> ALIVE_CNT
      [] state = RESTARTING -> RESTARTING_CNT
      [] state = DEAD -> DEAD_CNT
      [] OTHER -> << >>

\* The statements of one turn of the loop over actors.data.values(), in
\* the order of lines 429-465.
\* 430-431: node_to_summary[node_id] is read, the defaultdict makes it
NodeActorsMade(nts, node_id) ==
    IF node_id \notin DictKeys(nts) THEN DictSet(nts, node_id, <<<<ACTORS, << >>>>>>)
    ELSE IF ACTORS \in DictKeys(DictGet(nts, node_id)) THEN nts
    ELSE Set2(nts, node_id, ACTORS, << >>)

\* 432-433
ClusterActorsMade(nts) ==
    IF ACTORS \in DictKeys(nts) THEN nts ELSE DictSet(nts, ACTORS, << >>)

\* 434-436: the class's counters are made if missing, and then made anew
ClassCountersMade(nts, class_name) == Set2(nts, ACTORS, class_name, << >>)

\* 437
NodeCntAdded(nts, node_id) ==
    Set2(nts, node_id, ACTORS, Inc(DictGet(DictGet(nts, node_id), ACTORS), CNT))

\* 438
ClassCntAdded(nts, class_name) ==
    Set2(nts, ACTORS, class_name, Inc(DictGet(DictGet(nts, ACTORS), class_name), CNT))

\* 439-442
NodeClassMade(nts, node_id, class_name) ==
    IF class_name \in DictKeys(DictGet(DictGet(nts, node_id), ACTORS)) THEN nts
    ELSE Set2(nts, node_id, ACTORS,
              DictSet(DictGet(DictGet(nts, node_id), ACTORS), class_name, << >>))

\* 443-465, first statement of the branch taken
NodeStateAdded(nts, node_id, class_name, counter) ==
    IF counter = << >> THEN nts
    ELSE Set2(nts, node_id, ACTORS,
              DictSet(DictGet(DictGet(nts, node_id), ACTORS), class_name,
                      Inc(DictGet(DictGet(DictGet(nts, node_id), ACTORS), class_name),
                          counter)))

\* 443-465, second statement of the branch taken
ClassStateAdded(nts, class_name, counter) ==
    IF counter = << >> THEN nts
    ELSE Set2(nts, ACTORS, class_name,
              Inc(DictGet(DictGet(nts, ACTORS), class_name), counter))

ActorTurn(nts, actor) ==
    LET node_id == actor[ADDRESS][RAYLET_ID]
        class_name == actor[CLASS_NAME]
        counter == ActorCounter(actor[STATE_FIELD])
    IN ClassStateAdded(
         NodeStateAdded(
           NodeClassMade(
             ClassCntAdded(
               NodeCntAdded(
                 ClassCountersMade(
                   ClusterActorsMade(NodeActorsMade(nts, node_id)),
                   class_name),
                 node_id),
               class_name),
             node_id, class_name),
           node_id, class_name, counter),
         class_name, counter)

\* The counter of a scheduling state, none for a state the elifs do not name.
TaskCounter(scheduling_state) ==
    CASE scheduling_state = WAITING_FOR_DEPENDENCIES -> WAIT_FOR_DEP_CNT
      [] scheduling_state = SCHEDULED -> SCHEDULED_CNT
      [] scheduling_state = FINISHED -> FINISHED_CNT
      [] OTHER -> << >>

\* One turn of the loop over tasks.data.values() (lines 467-481).
TaskTurn(nts, task) ==
    IF task[TYPE] = ACTOR_CREATION_TASK THEN nts
    ELSE LET counter == TaskCounter(task[SCHEDULING_STATE])
             s1 == IF TASKS \in DictKeys(nts) THEN nts ELSE DictSet(nts, TASKS, << >>)
             s2 == IF task[NAME] \in DictKeys(DictGet(s1, TASKS)) THEN s1
                   ELSE Set2(s1, TASKS, task[NAME], << >>)
             s3 == Set2(s2, TASKS, task[NAME],
                        Inc(DictGet(DictGet(s2, TASKS), task[NAME]), CNT))
         IN IF counter = << >> THEN s3
            ELSE Set2(s3, TASKS, task[NAME],
                      Inc(DictGet(DictGet(s3, TASKS), task[NAME]), counter))

\* One turn of the loop over workers.data.values() (lines 483-489).
WorkerTurn(nts, worker) ==
    LET node_id == worker[WORKER_ADDRESS][RAYLET_ID]
    IN IF worker[IS_ALIVE]
       THEN Set2(nts, node_id, NUM_WORKERS,
                 GetOr(GetOr(nts, node_id, << >>), NUM_WORKERS, 0) + 1)
       ELSE nts

\* The three loops, each over the values of a dict in its order.
RECURSIVE ActorLoop(_, _, _)
ActorLoop(nts, data, i) ==
    IF i > Len(data) THEN nts ELSE ActorLoop(ActorTurn(nts, data[i][2]), data, i + 1)

RECURSIVE TaskLoop(_, _, _)
TaskLoop(nts, data, i) ==
    IF i > Len(data) THEN nts ELSE TaskLoop(TaskTurn(nts, data[i][2]), data, i + 1)

RECURSIVE WorkerLoop(_, _, _)
WorkerLoop(nts, data, i) ==
    IF i > Len(data) THEN nts ELSE WorkerLoop(WorkerTurn(nts, data[i][2]), data, i + 1)

\* The rollup of lines 395-492 over the three results, the node summary of
\* DataOrganizer being empty.
Rollup(actors, tasks, workers) ==
    WorkerLoop(TaskLoop(ActorLoop(<< >>, actors.data.v, 1), tasks.data.v, 1),
               workers.data.v, 1)

\* `.values()` of a `data` that is None raises AttributeError.
RollupRaises(actors, tasks, workers) ==
    actors.data.none \/ tasks.data.none \/ workers.data.none

Actor(id, class_name, state, node_id) ==
    (ACTOR_ID :> id) @@ (CLASS_NAME :> class_name) @@ (STATE_FIELD :> state)
        @@ (ADDRESS :> (RAYLET_ID :> node_id))

Worker(id, is_alive, node_id) ==
    (WORKER_ID :> id) @@ (IS_ALIVE :> is_alive)
        @@ (WORKER_ADDRESS :> (RAYLET_ID :> node_id))

\* The actor tables: up to MaxActors actors, the i-th with identifier i,
\* the odd ones on node n1 and the even ones on node n2.
NodeOf(i) == IF i % 2 = 1 THEN <<"n", "1">> ELSE <<"n", "2">>
ActorTables ==
    UNION { { [i \in 1..n |-> Actor(IdOf(i), c[i], st[i], NodeOf(i))] :
                c \in [1..n -> ClassNames], st \in [1..n -> ActorStates] } :
            n \in 0..MaxActors }

WorkerTables ==
    { << >>,
      << Worker(IdOf(1), TRUE, <<"n", "1">>), Worker(IdOf(2), FALSE, <<"n", "2">>),
         Worker(IdOf(3), TRUE, <<"n", "1">>) >> }

\* The raylets registered and what becomes of get_task_info at each.
TaskScenarios ==
    { [ids |-> << >>, outcome |-> << >>],
      [ids |-> <<1>>, outcome |-> <<"replied">>],
      [ids |-> <<1, 2>>, outcome |-> <<"replied", "falsy">>],
      [ids |-> <<1, 2>>, outcome |-> <<"falsy", "falsy">>],
      [ids |-> <<2, 1>>, outcome |-> <<"replied", "raised">>] }

InitSummary ==
    /\ gcs_table = None /\ GIdle
    /\ pc = "idle" /\ kind = "none"
    /\ option = ListApiOptions(0, << >>) /\ raylet_ids = << >>
    /\ req = << >> /\ issued = << >> /\ result = StateApiResult(None, None)
    /\ spc = "idle" /\ results = << >> /\ node_to_summary = << >>
    /\ actor_reply \in {None} \cup {Some(t) : t \in ActorTables}
    /\ worker_reply \in {None} \cup {Some(t) : t \in WorkerTables}
    /\ \E sc \in TaskScenarios :
         /\ registered = sc.ids
         /\ task_replies = sc.outcome

\* summary() makes its options and awaits the gather of the three list
\* operations; gather returns their results.
SummaryGather ==
    /\ spc = "idle"
    /\ \A i \in 1..Len(task_replies) : task_replies[i] # "raised"
    /\ LET op == ListApiOptions(SummaryLimit, << >>)
           replies == [i \in 1..Len(registered) |->
                         IF task_replies[i] = "replied"
                         THEN Some(TaskInfoEntries(registered[i])) ELSE None]
       IN results' = << list_actors(actor_reply, op),
                        list_tasks(registered, replies, op),
                        list_workers(worker_reply, op) >>
    /\ spc' = "gathered"
    /\ UNCHANGED <<actor_reply, worker_reply, task_replies, node_to_summary, gvars, fvars>>

\* A get_task_info raises: list_tasks raises it into the gather of
\* summary(), which raises it to the caller.
SummaryGatherRaises ==
    /\ spc = "idle"
    /\ \E i \in 1..Len(task_replies) : task_replies[i] = "raised"
    /\ spc' = "raised"
    /\ UNCHANGED <<actor_reply, worker_reply, task_replies, results, node_to_summary,
                   gvars, fvars>>

\* The rollup of the three results, returned.
SummaryRollup ==
    /\ spc = "gathered"
    /\ ~RollupRaises(results[1], results[2], results[3])
    /\ node_to_summary' = Rollup(results[1], results[2], results[3])
    /\ spc' = "done"
    /\ UNCHANGED <<actor_reply, worker_reply, task_replies, results, gvars, fvars>>

\* A loop of the rollup raises AttributeError to the caller.
SummaryRollupRaises ==
    /\ spc = "gathered"
    /\ RollupRaises(results[1], results[2], results[3])
    /\ spc' = "raised"
    /\ UNCHANGED <<actor_reply, worker_reply, task_replies, results, node_to_summary,
                   gvars, fvars>>

NextSummary ==
    \/ SummaryGather
    \/ SummaryGatherRaises
    \/ SummaryRollup
    \/ SummaryRollupRaises

SpecSummary == InitSummary /\ [][NextSummary]_vars

(***************************************************************************)
(* Claims about summary                                                    *)
(***************************************************************************)
\* The actors list_actors handed to summary().
ListedActors ==
    [i \in 1..Len(results[1].data.v) |-> results[1].data.v[i][2]]

\* The number of listed actors of a class, in a state and on a node when
\* these are given (<< >> stands for any).
CountOf(class_name, state, node_id) ==
    Cardinality({i \in 1..Len(ListedActors) :
                   /\ ListedActors[i][CLASS_NAME] = class_name
                   /\ state \in {<< >>, ListedActors[i][STATE_FIELD]}
                   /\ node_id \in {<< >>, ListedActors[i][ADDRESS][RAYLET_ID]}})

\* The count the cluster-wide breakdown holds under a counter of a class, 0
\* for a class or a counter that is not there.
ClusterCount(class_name, counter) ==
    GetOr(GetOr(GetOr(node_to_summary, ACTORS, << >>), class_name, << >>), counter, 0)

\* The count node node_id holds under a counter of a class.
NodeCount(node_id, class_name, counter) ==
    GetOr(GetOr(GetOr(GetOr(node_to_summary, node_id, << >>), ACTORS, << >>),
                class_name, << >>), counter, 0)

\* C8: after summary(), the cluster-wide breakdown of each class holds for
\* each state the number of listed actors of the class in the state, and
\* cnt the number of actors of the class, and each is the sum of the nodes'
\* counts.
C8_ClusterBreakdownCounts ==
    spc = "done"
        => \A c \in ClassNames :
             /\ ClusterCount(c, CNT) = CountOf(c, << >>, << >>)
             /\ \A st \in ActorStates :
                  /\ ClusterCount(c, ActorCounter(st)) = CountOf(c, st, << >>)
                  /\ ClusterCount(c, ActorCounter(st))
                       = NodeCount(<<"n", "1">>, c, ActorCounter(st))
                           + NodeCount(<<"n", "2">>, c, ActorCounter(st))

\* C9: summary() never raises because a source does not reply: the GCS
\* returning nothing, task peers replying falsy.
C9_SummaryNeverRaises ==
    (\A i \in 1..Len(task_replies) : task_replies[i] # "raised") => spc # "raised"

(***************************************************************************)
(* list_jobs                                                               *)
(***************************************************************************)
JOB_ID == <<"j", "o", "b", "_", "i", "d">>

\* What get_job_info returns: None, or the jobs the GCS holds as records.
JobReply(table) == GcsReply(table, JOB_ID)

\* list_jobs on a reply that can be iterated (lines 212-215): the filter
\* first, then `if not result` on the filtered list.
list_jobs(reply, opt) ==
    LET filtered == _filter(opt.filter, reply.v)
    IN IF filtered = << >>
       THEN StateApiResult(None, Some(<<GCS_QUERY_FAILURE_WARNING>>))
       ELSE StateApiResult(Some(filtered), None)

\* `for d in data` of _filter (line 89) on a reply of None raises TypeError.
JobsFilterRaises(reply) == reply.none

ListJobs(cs, limit) ==
    /\ ~JobsFilterRaises(JobReply(gcs_table))
    /\ Listed("jobs", cs, limit,
              list_jobs(JobReply(gcs_table), ListApiOptions(limit, Join(cs))))

\* The exception of _filter leaves list_jobs to its caller.
ListJobsRaises(cs, limit) ==
    /\ gpc = "idle"
    /\ JobsFilterRaises(JobReply(gcs_table))
    /\ gpc' = "raised" /\ gop' = "jobs"
    /\ clauses' = cs /\ glimit' = limit
    /\ UNCHANGED <<gcs_table, matched, gresult, fvars, svars>>

NextJobs ==
    \/ \E cs \in ClauseLists, limit \in 0..MaxLimit : ListJobs(cs, limit)
    \/ \E cs \in ClauseLists, limit \in 0..MaxLimit : ListJobsRaises(cs, limit)
    \/ GReturn

SpecJobs == InitGcs /\ [][NextJobs]_vars

(***************************************************************************)
(* Claims about list_jobs                                                  *)
(***************************************************************************)
\* get_job_info returned at least one job.
JobsReturned == ~gcs_table.none /\ gcs_table.v # << >>

\* C11: whenever get_job_info returns at least one job, list_jobs under a
\* filter of well-formed clauses returns the jobs that pass the filter,
\* none of them cut by option.limit, and its warnings do not hold
\* GCS_QUERY_FAILURE_WARNING.
C11_WarningOnlyWithoutJobData ==
    (gpc = "listed" /\ gop = "jobs" /\ JobsReturned /\ AllWellFormed(clauses))
        => /\ \/ gresult.warnings.none
              \/ GCS_QUERY_FAILURE_WARNING \notin Range(gresult.warnings.v)
           /\ gresult.data = Some(_filter(Join(clauses), JobReply(gcs_table).v))

====
